---------------------------- MODULE Spec2Model ----------------------------
(***************************************************************************)
(* A model of agl_to_nem12.py: the conversion of AGL MyUsageData rows into *)
(* NEM12 records (100 / 200 / 300 / 900).                                   *)
(*                                                                         *)
(* Representation.  A Python str is a sequence of one-character strings    *)
(* (<<"E","1">> is "E1", <<>> is ""), so that split, the suffix pattern,   *)
(* float(), strptime() and the formatting are computed character by        *)
(* character.  A float is the integer number of 1/10000 units it denotes.  *)
(* Python's None is the value None below when it stands where a str may    *)
(* stand, and the empty sequence where a number or a datetime may stand    *)
(* (a present number v is then <<v>>).                                     *)
(***************************************************************************)
EXTENDS Integers, Sequences, FiniteSets, TLC

VARIABLES
    INTERVAL_LENGTH,    \* global INTERVAL_LENGTH, as the command line sets it
    INTERVALS_PER_DAY,  \* global INTERVALS_PER_DAY
    readable,           \* whether open(input_filepath) succeeds
    fieldnames,         \* reader.fieldnames: the header of the input
    pending,            \* rows of the input already fixed, still to be read
    consumed,           \* the rows read so far, in order
    pc,                 \* "start", "reading", "done", "exited"
    data,               \* data[nmi][suffix][date] = [intervals, quality]
    nmi_details,        \* nmi_details[nmi][suffix] = stream details
    warned_suffixes,    \* set of <<nmi, suffix>>
    warnings,           \* the suffix warnings printed to stderr, in order
    row_count, processed_rows, skipped_rows,
    output,             \* the rows written to the output file, in order
    out_opened,         \* whether open(output_filepath, 'w') was executed
    exit_status         \* -1 while running; the process exit status after

vars == << INTERVAL_LENGTH, INTERVALS_PER_DAY, readable, fieldnames, pending,
           consumed, pc, data, nmi_details, warned_suffixes, warnings,
           row_count, processed_rows, skipped_rows, output, out_opened,
           exit_status >>

-----------------------------------------------------------------------------
(* Configuration, lines 11-25.                                              *)

NEM12_VERSION    == <<"N","E","M","1","2">>
FROM_PARTICIPANT == <<"A","G","L">>
TO_PARTICIPANT   == <<"C","o","n","v","e","r","t","e","r">>
DEFAULT_UOM      == <<"k","W","h">>
DEFAULT_QUALITY  == <<"E">>

\* QUALITY_MAP.get(flag, DEFAULT_QUALITY)
QUALITY_MAP_get(flag) ==
    IF flag \in { <<"A">>, <<"F">>, <<"E">>, <<"S">>, <<"N">> }
    THEN flag ELSE DEFAULT_QUALITY

\* --interval: choices=[5, 15, 30]
IntervalChoices == {5, 15, 30}

-----------------------------------------------------------------------------
(* Python values.                                                          *)

None == <<"None">>

\* bool(x) of a str or None
Truthy(x) == x # None /\ x # <<>>

\* The characters of the model in code point order: str comparison, upper().
CodePoints ==
    << " ", "#", "-", ".", "/",
       "0", "1", "2", "3", "4", "5", "6", "7", "8", "9", ":",
       "A", "B", "C", "D", "E", "F", "G", "H", "I", "J", "K", "L", "M",
       "N", "O", "P", "Q", "R", "S", "T", "U", "V", "W", "X", "Y", "Z",
       "a", "b", "c", "d", "e", "f", "g", "h", "i", "j", "k", "l", "m",
       "n", "o", "p", "q", "r", "s", "t", "u", "v", "w", "x", "y", "z" >>

Ord(c) == CHOOSE i \in 1..Len(CodePoints) : CodePoints[i] = c

Digits == { "0", "1", "2", "3", "4", "5", "6", "7", "8", "9" }

DigitVal(c) == Ord(c) - Ord("0")

DigitChar(d) == CodePoints[Ord("0") + d]

IsLower(c) == Ord(c) >= Ord("a") /\ Ord(c) <= Ord("z")

\* str.upper() on one character
Upper(c) == IF IsLower(c) THEN CodePoints[Ord(c) - Ord("a") + Ord("A")] ELSE c

\* s < t for two str: the order sorted() uses
RECURSIVE StrLess(_, _)
StrLess(s, t) ==
    IF t = <<>> THEN FALSE
    ELSE IF s = <<>> THEN TRUE
    ELSE IF Head(s) = Head(t) THEN StrLess(Tail(s), Tail(t))
    ELSE Ord(Head(s)) < Ord(Head(t))

AllDigits(s) == \A i \in 1..Len(s) : s[i] \in Digits

\* int() of a string of digits
RECURSIVE DigitsToInt(_)
DigitsToInt(s) ==
    IF s = <<>> THEN 0
    ELSE 10 * DigitsToInt(SubSeq(s, 1, Len(s) - 1)) + DigitVal(s[Len(s)])

\* str() of a natural number
RECURSIVE IntToDigits(_)
IntToDigits(n) ==
    IF n < 10 THEN << DigitChar(n) >>
    ELSE Append(IntToDigits(n \div 10), DigitChar(n % 10))

\* a natural number zero-padded on the left to w characters (%02d, %04d)
RECURSIVE ZeroPad(_, _)
ZeroPad(s, w) == IF Len(s) >= w THEN s ELSE ZeroPad(<<"0">> \o s, w)

\* s.split(sep) for a one-character sep
RECURSIVE Split(_, _)
Split(s, sep) ==
    IF \A i \in 1..Len(s) : s[i] # sep THEN << s >>
    ELSE LET k == CHOOSE i \in 1..Len(s) :
                      s[i] = sep /\ \A j \in 1..(i - 1) : s[j] # sep
         IN << SubSeq(s, 1, k - 1) >> \o Split(SubSeq(s, k + 1, Len(s)), sep)

-----------------------------------------------------------------------------
(* float(value_str) and f"{val:.3f}".                                      *)

\* 1/10000: the unit in which a float is held
Unit == 10 ^ 4

FracWidth == Len(IntToDigits(Unit)) - 1

\* The decimal literals float() accepts that are modelled: an optional sign,
\* digits with at most one point and at most FracWidth digits after it. Every
\* other string of the model's rows raises ValueError.
IsDecimalLiteral(s) ==
    LET body  == IF s # <<>> /\ s[1] \in {"+", "-"} THEN Tail(s) ELSE s
        parts == Split(body, ".")
    IN  /\ Len(parts) \in {1, 2}
        /\ \A i \in 1..Len(parts) : AllDigits(parts[i])
        /\ \E i \in 1..Len(parts) : parts[i] # <<>>
        /\ Len(parts) = 2 => Len(parts[2]) <= FracWidth

RECURSIVE PadRight(_, _)
PadRight(s, w) == IF Len(s) >= w THEN s ELSE PadRight(Append(s, "0"), w)

\* float(s): <<v>> with v in units of 1/Unit, or <<>> for ValueError
float(s) ==
    IF s = None \/ ~IsDecimalLiteral(s) THEN <<>>
    ELSE LET neg   == s[1] = "-"
             body  == IF s[1] \in {"+", "-"} THEN Tail(s) ELSE s
             parts == Split(body, ".")
             whole == DigitsToInt(parts[1])
             frac  == IF Len(parts) = 2
                      THEN DigitsToInt(PadRight(parts[2], FracWidth)) ELSE 0
             mag   == whole * Unit + frac
         IN  << IF neg THEN 0 - mag ELSE mag >>

\* f"{val:.3f}": round to thousandths (no value of the model's rows lies
\* halfway between two thousandths), sign kept, three decimals always.
Format3(v) ==
    LET mag    == IF v < 0 THEN 0 - v ELSE v
        step   == Unit \div 1000
        thou   == (mag + step \div 2) \div step
        digits == IntToDigits(thou \div 1000) \o <<".">>
                      \o ZeroPad(IntToDigits(thou % 1000), 3)
    IN  IF v < 0 THEN <<"-">> \o digits ELSE digits

-----------------------------------------------------------------------------
(* Helper functions, lines 28-61.                                          *)

IsLeap(y) == (y % 4 = 0 /\ y % 100 # 0) \/ y % 400 = 0

DaysInMonth(y, m) ==
    IF m = 2 THEN (IF IsLeap(y) THEN 29 ELSE 28)
    ELSE IF m \in {4, 6, 9, 11} THEN 30 ELSE 31

\* one or two digits, as %d %m %I %M %S match them
OneOrTwoDigits(s) == Len(s) \in {1, 2} /\ AllDigits(s)

\* datetime.strptime(dt_str, '%d/%m/%Y %I:%M:%S %p'): <<dt>>, or <<>> for
\* ValueError. Fields are separated by single spaces in the model's rows.
strptime(dt_str) ==
    LET parts == Split(dt_str, " ")
    IN  IF Len(parts) # 3 THEN <<>>
        ELSE
        LET dmy  == Split(parts[1], "/")
            hms  == Split(parts[2], ":")
            ampm == [i \in 1..Len(parts[3]) |-> Upper(parts[3][i])]
        IN  IF \/ Len(dmy) # 3 \/ Len(hms) # 3
               \/ ~OneOrTwoDigits(dmy[1]) \/ ~OneOrTwoDigits(dmy[2])
               \/ Len(dmy[3]) # 4 \/ ~AllDigits(dmy[3])
               \/ ~OneOrTwoDigits(hms[1]) \/ ~OneOrTwoDigits(hms[2])
               \/ ~OneOrTwoDigits(hms[3])
               \/ ampm \notin { <<"A","M">>, <<"P","M">> }
            THEN <<>>
            ELSE
            LET d  == DigitsToInt(dmy[1])
                mo == DigitsToInt(dmy[2])
                y  == DigitsToInt(dmy[3])
                I  == DigitsToInt(hms[1])
                M  == DigitsToInt(hms[2])
                S  == DigitsToInt(hms[3])
            IN  IF \/ d \notin 1..31 \/ mo \notin 1..12 \/ y < 1
                   \/ I \notin 1..12 \/ M \notin 0..59 \/ S \notin 0..59
                   \/ d > DaysInMonth(y, mo)
                THEN <<>>
                ELSE << [ year |-> y, month |-> mo, day |-> d,
                          hour |-> (I % 12) + (IF ampm = <<"P","M">> THEN 12 ELSE 0),
                          minute |-> M, second |-> S ] >>

\* parse_agl_datetime with a default datetime where None is returned
parse_agl_datetime_default(dt_str) ==
    IF ~Truthy(dt_str) \/ strptime(dt_str) = <<>>
    THEN << [ year |-> 1970, month |-> 1, day |-> 1,
              hour |-> 0, minute |-> 0, second |-> 0 ] >>
    ELSE strptime(dt_str)

\* <<dt>> or <<>> (None)
parse_agl_datetime(dt_str) ==
    IF ~Truthy(dt_str) THEN <<>> ELSE strptime(dt_str)

\* start_dt.date()
DateOf(dt) == << dt.year, dt.month, dt.day >>

\* d1 < d2 for two dates
DateLess(d1, d2) ==
    \/ d1[1] < d2[1]
    \/ d1[1] = d2[1] /\ d1[2] < d2[2]
    \/ d1[1] = d2[1] /\ d1[2] = d2[2] /\ d1[3] < d2[3]

\* get_interval_index with the minutes of the hour left out
get_interval_index_hours(dt_obj, interval_length_minutes, n) ==
    IF dt_obj = <<>> \/ interval_length_minutes <= 0 THEN <<>>
    ELSE LET index == (dt_obj[1].hour * 60) \div interval_length_minutes
         IN  IF 0 <= index /\ index < n THEN << index >> ELSE <<>>

\* <<index>> or <<>> (None); n is the global INTERVALS_PER_DAY
get_interval_index(dt_obj, interval_length_minutes, n) ==
    IF dt_obj = <<>> \/ interval_length_minutes <= 0 THEN <<>>
    ELSE LET minutes_past_midnight == dt_obj[1].hour * 60 + dt_obj[1].minute
             index == minutes_past_midnight \div interval_length_minutes
         IN  IF 0 <= index /\ index < n THEN << index >> ELSE <<>>

\* date_obj.strftime('%Y%m%d')
format_nem12_date(date_obj) ==
    ZeroPad(IntToDigits(date_obj[1]), 4) \o ZeroPad(IntToDigits(date_obj[2]), 2)
        \o ZeroPad(IntToDigits(date_obj[3]), 2)

\* dt_obj.strftime('%Y%m%d%H%M%S')
format_nem12_datetime(dt) ==
    format_nem12_date(DateOf(dt)) \o ZeroPad(IntToDigits(dt.hour), 2)
        \o ZeroPad(IntToDigits(dt.minute), 2) \o ZeroPad(IntToDigits(dt.second), 2)

\* re.match(r'^[EBVQKNeqvkn]\d+$', suffix)
MatchesStandardPattern(suffix) ==
    /\ Len(suffix) >= 2
    /\ suffix[1] \in {"E", "B", "V", "Q", "K", "N", "e", "q", "v", "k", "n"}
    /\ AllDigits(Tail(suffix))

\* [suffix, is_standard_pattern]; suffix is None when there is none
get_suffix_from_register(register_code) ==
    IF ~Truthy(register_code)
    THEN [suffix |-> None, is_standard_pattern |-> FALSE]
    ELSE IF \E i \in 1..Len(register_code) : register_code[i] = "#"
    THEN LET parts  == Split(register_code, "#")
             suffix == parts[Len(parts)]
         IN  IF suffix = <<>>
             THEN [suffix |-> None, is_standard_pattern |-> FALSE]
             ELSE [suffix |-> suffix,
                   is_standard_pattern |-> MatchesStandardPattern(suffix)]
    ELSE [suffix |-> None, is_standard_pattern |-> FALSE]

\* determine_day_quality with F looked for before E
determine_day_quality_F_first(interval_qualities) ==
    LET present_qualities ==
            { interval_qualities[i] : i \in 1..Len(interval_qualities) } \ { <<>> }
    IN  IF present_qualities = {} THEN DEFAULT_QUALITY
        ELSE IF <<"N">> \in present_qualities THEN <<"N">>
        ELSE IF <<"S">> \in present_qualities THEN <<"S">>
        ELSE IF <<"F">> \in present_qualities THEN <<"F">>
        ELSE IF <<"E">> \in present_qualities THEN <<"E">>
        ELSE IF <<"A">> \in present_qualities THEN <<"A">>
        ELSE DEFAULT_QUALITY

\* interval_qualities: a sequence of codes ("" is <<>>)
determine_day_quality(interval_qualities) ==
    LET present_qualities ==
            { interval_qualities[i] : i \in 1..Len(interval_qualities) } \ { <<>> }
    IN  IF present_qualities = {} THEN DEFAULT_QUALITY
        ELSE IF <<"N">> \in present_qualities THEN <<"N">>
        ELSE IF <<"S">> \in present_qualities THEN <<"S">>
        ELSE IF <<"E">> \in present_qualities THEN <<"E">>
        ELSE IF <<"F">> \in present_qualities THEN <<"F">>
        ELSE IF <<"A">> \in present_qualities THEN <<"A">>
        ELSE DEFAULT_QUALITY

-----------------------------------------------------------------------------
(* Dictionaries: a dict is a function on its keys; {} is <<>>.              *)

Put(f, k, v) == [x \in DOMAIN f \cup {k} |-> IF x = k THEN v ELSE f[x]]

\* the defaultdict factory of line 68-69
NewDay(n) == [ intervals |-> [i \in 0..(n - 1) |-> <<>>],
               quality   |-> [i \in 0..(n - 1) |-> <<>>] ]

\* DayData as if every access made a new day
DayDataAlwaysNew(d, nmi, suffix, interval_date, n) == NewDay(n)

\* data[nmi][suffix][interval_date] of a defaultdict: the entry, or a new one
DayData(d, nmi, suffix, interval_date, n) ==
    IF nmi \in DOMAIN d /\ suffix \in DOMAIN d[nmi]
          /\ interval_date \in DOMAIN d[nmi][suffix]
    THEN d[nmi][suffix][interval_date]
    ELSE NewDay(n)

\* data after data[nmi][suffix][interval_date] = day_data
PutDay(d, nmi, suffix, interval_date, day_data) ==
    LET of_nmi    == IF nmi \in DOMAIN d THEN d[nmi] ELSE <<>>
        of_suffix == IF suffix \in DOMAIN of_nmi THEN of_nmi[suffix] ELSE <<>>
    IN  Put(d, nmi, Put(of_nmi, suffix, Put(of_suffix, interval_date, day_data)))

-----------------------------------------------------------------------------
(* The reading loop, lines 83-123.                                         *)

expected_headers ==
    { "NMI", "RegisterCode", "StartDate", "ProfileReadValue", "QualityFlag",
      "DeviceNumber" }

\* line 79
HeaderOk(names) ==
    names # <<>> /\ \A h \in expected_headers : \E i \in 1..Len(names) : names[i] = h

\* line 88 without device_num
RequiredPresentNoDevice(row) ==
    /\ Truthy(row.NMI) /\ Truthy(row.RegisterCode) /\ Truthy(row.StartDate)
    /\ row.ProfileReadValue # None
    /\ Truthy(row.QualityFlag)

\* line 88: all([nmi, register_code, start_date_str, value_str is not None,
\*               quality_agl, device_num])
RequiredPresent(row) ==
    /\ Truthy(row.NMI) /\ Truthy(row.RegisterCode) /\ Truthy(row.StartDate)
    /\ row.ProfileReadValue # None
    /\ Truthy(row.QualityFlag) /\ Truthy(row.DeviceNumber)

\* lines 88-98: the row passes every `continue`
Accepted(row, len, n) ==
    LET start_dt == parse_agl_datetime(row.StartDate)
    IN  /\ RequiredPresent(row)
        /\ start_dt # <<>>
        /\ get_interval_index(start_dt, len, n) # <<>>
        /\ Truthy(get_suffix_from_register(row.RegisterCode).suffix)

\* lines 100-101: [value, quality_nem12]
ValueAndQuality(value_str, quality_agl) ==
    LET f == float(value_str)
    IN  IF f # <<>>
        THEN [value |-> f[1], quality_nem12 |-> QUALITY_MAP_get(quality_agl)]
        ELSE [value |-> 0, quality_nem12 |-> <<"N">>]

\* lines 114-118
StreamIdentifier(suffix) ==
    LET s_upper == Upper(suffix[1])
    IN  IF s_upper = "B" THEN <<"G","E","N","E","R","A","T","I","O","N">>
        ELSE IF s_upper \in {"E", "V"}
             THEN <<"C","O","N","S","U","M","P","T","I","O","N">>
        ELSE IF s_upper \in {"Q", "K"} THEN <<"R","E","A","C","T","I","V","E">>
        ELSE <<"I","N","T","E","R","V","A","L">>

\* lines 120-123
NewDetails(suffix, device_num, len) ==
    [ NMISuffix |-> suffix, MDMDataStreamIdentifier |-> StreamIdentifier(suffix),
      MeterSerialNumber |-> device_num, UOM |-> DEFAULT_UOM,
      IntervalLength |-> len, NextScheduledReadDate |-> <<>> ]

\* lines 109-123 without the test of line 109: the last row's details stay
DetailsAfterOverwrite(details, nmi, suffix, device_num, len) ==
    LET of_nmi == IF nmi \in DOMAIN details THEN details[nmi] ELSE <<>>
    IN  Put(details, nmi, Put(of_nmi, suffix, NewDetails(suffix, device_num, len)))

\* lines 109-123: nmi_details after an accepted row of (nmi, suffix)
DetailsAfter(details, nmi, suffix, device_num, len) ==
    LET of_nmi == IF nmi \in DOMAIN details THEN details[nmi] ELSE <<>>
    IN  IF suffix \in DOMAIN of_nmi THEN details
        ELSE Put(details, nmi, Put(of_nmi, suffix, NewDetails(suffix, device_num, len)))

\* line 110: the warning is printed
WarnsOn(details, warned, nmi, suffix, is_standard_pattern) ==
    /\ ~(nmi \in DOMAIN details /\ suffix \in DOMAIN details[nmi])
    /\ ~is_standard_pattern
    /\ <<nmi, suffix>> \notin warned

\* One iteration of the loop body (lines 85-123) on the state st =
\* [data, nmi_details, warned_suffixes, warnings, processed_rows, skipped_rows].
StepRow(st, row, len, n) ==
    IF ~Accepted(row, len, n)
    THEN [st EXCEPT !.skipped_rows = @ + 1]
    ELSE
    LET nmi            == row.NMI
        start_dt       == parse_agl_datetime(row.StartDate)
        interval_date  == DateOf(start_dt[1])
        interval_index == get_interval_index(start_dt, len, n)[1]
        sfx            == get_suffix_from_register(row.RegisterCode)
        suffix         == sfx.suffix
        vq             == ValueAndQuality(row.ProfileReadValue, row.QualityFlag)
        old_day        == DayData(st.data, nmi, suffix, interval_date, n)
        day_data       ==
            [ intervals |-> [old_day.intervals EXCEPT ![interval_index] = << vq.value >>],
              quality   |-> [old_day.quality EXCEPT ![interval_index] = vq.quality_nem12] ]
        warn           == WarnsOn(st.nmi_details, st.warned_suffixes, nmi, suffix,
                                  sfx.is_standard_pattern)
    IN  [ data            |-> PutDay(st.data, nmi, suffix, interval_date, day_data),
          nmi_details     |-> DetailsAfter(st.nmi_details, nmi, suffix,
                                           row.DeviceNumber, len),
          warned_suffixes |->
              IF warn THEN st.warned_suffixes \cup { <<nmi, suffix>> }
              ELSE st.warned_suffixes,
          warnings        |->
              IF warn THEN Append(st.warnings, <<nmi, suffix>>) ELSE st.warnings,
          processed_rows  |-> st.processed_rows + 1,
          skipped_rows    |-> st.skipped_rows ]

-----------------------------------------------------------------------------
(* The writer, lines 136-187.                                              *)

\* sorted(S, reverse=True)
RECURSIVE SortedStrsReverse(_)
SortedStrsReverse(S) ==
    IF S = {} THEN <<>>
    ELSE LET m == CHOOSE x \in S : \A y \in S \ {x} : StrLess(y, x)
         IN  << m >> \o SortedStrsReverse(S \ {m})

\* sorted(S) for a set of str
RECURSIVE SortedStrs(_)
SortedStrs(S) ==
    IF S = {} THEN <<>>
    ELSE LET m == CHOOSE x \in S : \A y \in S \ {x} : StrLess(x, y)
         IN  << m >> \o SortedStrs(S \ {m})

\* sorted(S) for a set of dates
RECURSIVE SortedDates(_)
SortedDates(S) ==
    IF S = {} THEN <<>>
    ELSE LET m == CHOOSE x \in S : \A y \in S \ {x} : DateLess(x, y)
         IN  << m >> \o SortedDates(S \ {m})

\* "".join(seq)
RECURSIVE Join(_)
Join(seq) == IF seq = <<>> THEN <<>> ELSE Head(seq) \o Join(Tail(seq))

\* lines 141-148
ConfigString(suffixes) ==
    LET nmi_config_string == Join(SortedStrs(suffixes))
    IN  IF Len(nmi_config_string) > 255
        THEN SubSeq(nmi_config_string, 1, 255) ELSE nmi_config_string

\* lines 168-175: processed_intervals
ProcessedIntervals(day_data, n) ==
    [ k \in 1..n |->
        IF day_data.intervals[k - 1] # <<>>
        THEN Format3(day_data.intervals[k - 1][1])
        ELSE <<"0",".","0","0","0">> ]

\* lines 168-175: final_qualities_for_day
FinalQualities(day_data, n) ==
    [ k \in 1..n |->
        LET interval_quality ==
                IF day_data.quality[k - 1] # <<>>
                THEN day_data.quality[k - 1] ELSE DEFAULT_QUALITY
        IN  IF day_data.intervals[k - 1] # <<>> THEN interval_quality ELSE <<"S">> ]

\* DayRows as if a day with any empty slot were skipped
DayRowsDropPartial(interval_date, day_data, n) ==
    IF \E i \in DOMAIN day_data.intervals : day_data.intervals[i] = <<>>
    THEN <<>>
    ELSE << << 300, format_nem12_date(interval_date) >>
               \o ProcessedIntervals(day_data, n)
               \o << determine_day_quality(FinalQualities(day_data, n)),
                     <<>>, <<>>, <<>> >> >>

\* lines 162-185: the 300 rows written for one day, << >> or << row >>
DayRows(interval_date, day_data, n) ==
    IF \A i \in DOMAIN day_data.intervals : day_data.intervals[i] = <<>>
    THEN <<>>
    ELSE LET processed_intervals     == ProcessedIntervals(day_data, n)
             final_qualities_for_day == FinalQualities(day_data, n)
         IN  IF Len(processed_intervals) # n THEN <<>>
             ELSE << << 300, format_nem12_date(interval_date) >>
                        \o processed_intervals
                        \o << determine_day_quality(final_qualities_for_day),
                              <<>>, <<>>, <<>> >> >>

RECURSIVE DaysRows(_, _, _)
DaysRows(dates, by_date, n) ==
    IF dates = <<>> THEN <<>>
    ELSE DayRows(Head(dates), by_date[Head(dates)], n)
             \o DaysRows(Tail(dates), by_date, n)

\* lines 151-185: the 200 row of one stream and its 300 rows
StreamRows(nmi, suffix, nmi_config_string, d, details, n) ==
    LET det                 == details[nmi][suffix]
        nmi_suffix_date_data == IF suffix \in DOMAIN d[nmi] THEN d[nmi][suffix] ELSE <<>>
    IN  << << 200, nmi, nmi_config_string, <<>>, det.NMISuffix,
              det.MDMDataStreamIdentifier, det.MeterSerialNumber, det.UOM,
              det.IntervalLength, det.NextScheduledReadDate >> >>
        \o DaysRows(SortedDates(DOMAIN nmi_suffix_date_data),
                    nmi_suffix_date_data, n)

RECURSIVE SuffixesRows(_, _, _, _, _, _)
SuffixesRows(nmi, suffixes, nmi_config_string, d, details, n) ==
    IF suffixes = <<>> THEN <<>>
    ELSE StreamRows(nmi, Head(suffixes), nmi_config_string, d, details, n)
             \o SuffixesRows(nmi, Tail(suffixes), nmi_config_string, d, details, n)

\* lines 140-185 for the meters nmis, in that order
RECURSIVE MetersRows(_, _, _, _)
MetersRows(nmis, d, details, n) ==
    IF nmis = <<>> THEN <<>>
    ELSE LET nmi      == Head(nmis)
             suffixes == IF nmi \in DOMAIN details THEN DOMAIN details[nmi] ELSE {}
         IN  SuffixesRows(nmi, SortedStrs(suffixes), ConfigString(suffixes),
                          d, details, n)
                 \o MetersRows(Tail(nmis), d, details, n)

\* lines 138-187: every row written, now being datetime.now()
WrittenRows(d, details, n, now) ==
    << << 100, NEM12_VERSION, format_nem12_datetime(now), FROM_PARTICIPANT,
          TO_PARTICIPANT >> >>
        \o MetersRows(SortedStrs(DOMAIN d), d, details, n)
        \o << << 900 >> >>

-----------------------------------------------------------------------------
(* The inputs of the model.                                                *)

Row(nmi, register_code, start_date, value, quality, device) ==
    [ NMI |-> nmi, RegisterCode |-> register_code, StartDate |-> start_date,
      ProfileReadValue |-> value, QualityFlag |-> quality, DeviceNumber |-> device ]

\* NMI123456, E1#E1, "01/06/2024 12:30:00 AM", 1.234, A, DEV1
RowSample ==
    Row(<<"N","M","I","1","2","3","4","5","6">>,
        <<"E","1","#","E","1">>,
        <<"0","1","/","0","6","/","2","0","2","4"," ","1","2",":","3","0",":","0","0"," ","A","M">>,
        <<"1",".","2","3","4">>, <<"A">>, <<"D","E","V","1">>)

\* the same slot again: another value, flag and serial
RowSameSlot ==
    Row(<<"N","M","I","1","2","3","4","5","6">>,
        <<"E","1","#","E","1">>,
        <<"0","1","/","0","6","/","2","0","2","4"," ","1","2",":","3","0",":","0","0"," ","A","M">>,
        <<"2",".","5">>, <<"F">>, <<"D","E","V","2">>)

\* another slot of the same day, the value empty
RowAfternoon ==
    Row(<<"N","M","I","1","2","3","4","5","6">>,
        <<"E","1","#","E","1">>,
        <<"0","1","/","0","6","/","2","0","2","4"," ","1",":","1","5",":","0","0"," ","P","M">>,
        <<>>, <<"A">>, <<"D","E","V","1">>)

\* the day before, its last slot; a flag QUALITY_MAP does not hold
RowDayBefore ==
    Row(<<"N","M","I","1","2","3","4","5","6">>,
        <<"E","1","#","E","1">>,
        <<"3","1","/","0","5","/","2","0","2","4"," ","1","1",":","5","9",":","5","9"," ","P","M">>,
        <<"1",".","2","3","4","6">>, <<"X">>, <<"D","E","V","1">>)

\* suffix b1
RowLowerB ==
    Row(<<"N","M","I","1","2","3","4","5","6">>,
        <<"B","1","#","b","1">>,
        <<"0","1","/","0","6","/","2","0","2","4"," ","1","2",":","3","0",":","0","0"," ","A","M">>,
        <<"0",".","5">>, <<"S">>, <<"D","E","V","1">>)

\* another meter, suffix Z9 after the last #, a value float() rejects
RowOtherMeter ==
    Row(<<"N","m","i","0">>,
        <<"X","#","Y","#","Z","9">>,
        <<"0","1","/","0","6","/","2","0","2","4"," ","1","2",":","0","0",":","0","0"," ","A","M">>,
        <<"a","b","c">>, <<"N">>, <<"D","E","V","3">>)

\* NMI empty
RowNoNmi ==
    Row(<<>>,
        <<"E","1","#","E","1">>,
        <<"0","1","/","0","6","/","2","0","2","4"," ","1","2",":","3","0",":","0","0"," ","A","M">>,
        <<"1",".","2","3","4">>, <<"A">>, <<"D","E","V","1">>)

\* RegisterCode empty
RowNoRegister ==
    Row(<<"N","M","I","1","2","3","4","5","6">>,
        <<>>,
        <<"0","1","/","0","6","/","2","0","2","4"," ","1","2",":","3","0",":","0","0"," ","A","M">>,
        <<"1",".","2","3","4">>, <<"A">>, <<"D","E","V","1">>)

\* StartDate empty
RowNoStart ==
    Row(<<"N","M","I","1","2","3","4","5","6">>,
        <<"E","1","#","E","1">>,
        <<>>,
        <<"1",".","2","3","4">>, <<"A">>, <<"D","E","V","1">>)

\* ProfileReadValue missing: a row that ends before the last column
RowNoValue ==
    Row(<<"N","M","I","1","2","3","4","5","6">>,
        <<"E","1","#","E","1">>,
        <<"0","1","/","0","6","/","2","0","2","4"," ","1","2",":","3","0",":","0","0"," ","A","M">>,
        None, <<"A">>, <<"D","E","V","1">>)

\* QualityFlag empty
RowNoFlag ==
    Row(<<"N","M","I","1","2","3","4","5","6">>,
        <<"E","1","#","E","1">>,
        <<"0","1","/","0","6","/","2","0","2","4"," ","1","2",":","3","0",":","0","0"," ","A","M">>,
        <<"1",".","2","3","4">>, <<>>, <<"D","E","V","1">>)

\* DeviceNumber empty
RowNoDevice ==
    Row(<<"N","M","I","1","2","3","4","5","6">>,
        <<"E","1","#","E","1">>,
        <<"0","1","/","0","6","/","2","0","2","4"," ","1","2",":","3","0",":","0","0"," ","A","M">>,
        <<"1",".","2","3","4">>, <<"A">>, <<>>)

\* StartDate "not-a-date"
RowNotADate ==
    Row(<<"N","M","I","1","2","3","4","5","6">>,
        <<"E","1","#","E","1">>,
        <<"n","o","t","-","a","-","d","a","t","e">>,
        <<"1",".","2","3","4">>, <<"A">>, <<"D","E","V","1">>)

\* StartDate with hour 13, which %I does not match
RowHour13 ==
    Row(<<"N","M","I","1","2","3","4","5","6">>,
        <<"E","1","#","E","1">>,
        <<"0","1","/","0","6","/","2","0","2","4"," ","1","3",":","0","0",":","0","0"," ","P","M">>,
        <<"1",".","2","3","4">>, <<"A">>, <<"D","E","V","1">>)

\* RegisterCode without #
RowNoHash ==
    Row(<<"N","M","I","1","2","3","4","5","6">>,
        <<"E","1">>,
        <<"0","1","/","0","6","/","2","0","2","4"," ","1","2",":","3","0",":","0","0"," ","A","M">>,
        <<"1",".","2","3","4">>, <<"A">>, <<"D","E","V","1">>)

\* RegisterCode ending in #
RowHashLast ==
    Row(<<"N","M","I","1","2","3","4","5","6">>,
        <<"E","1","#">>,
        <<"0","1","/","0","6","/","2","0","2","4"," ","1","2",":","3","0",":","0","0"," ","A","M">>,
        <<"1",".","2","3","4">>, <<"A">>, <<"D","E","V","1">>)

Rows ==
    { RowSample,
      RowSameSlot,
      RowAfternoon,
      RowDayBefore,
      RowLowerB,
      RowOtherMeter,
      RowNoNmi,
      RowNoRegister,
      RowNoStart,
      RowNoValue,
      RowNoFlag,
      RowNoDevice,
      RowNotADate,
      RowHour13,
      RowNoHash,
      RowHashLast }

\* Headers: one with every column (another besides, ProfileReadValue last), one
\* without DeviceNumber, and that of an empty file.
Headers ==
    { << "NMI", "RegisterCode", "Note", "StartDate", "QualityFlag", "DeviceNumber",
         "ProfileReadValue" >>,
      << "NMI", "RegisterCode", "StartDate", "ProfileReadValue", "QualityFlag" >>,
      << >> }

\* csv.DictReader gives None to the columns a short row does not reach: the
\* fields of row that are None are those of the last columns of the header.
Realizable(row, names) ==
    \E k \in 0..Len(names) :
        { h \in expected_headers : row[h] = None }
            = { names[i] : i \in (k + 1)..Len(names) } \cap expected_headers

\* datetime.now() when the 100 row is written
Clock ==
    { [year |-> 2024, month |-> 7, day |-> 1, hour |-> 9, minute |-> 5, second |-> 0] }

\* the number of rows of an input file whose rows are not fixed beforehand
MaxRows == 2

-----------------------------------------------------------------------------
(* The run of convert_agl_to_nem12.                                        *)

Idle ==
    /\ pc = "start"
    /\ consumed = <<>>
    /\ data = <<>> /\ nmi_details = <<>>
    /\ warned_suffixes = {} /\ warnings = <<>>
    /\ row_count = 0 /\ processed_rows = 0 /\ skipped_rows = 0
    /\ output = <<>> /\ out_opened = FALSE
    /\ exit_status = -1

\* lines 203-204 set the globals
Init ==
    /\ INTERVAL_LENGTH \in IntervalChoices
    /\ INTERVALS_PER_DAY = (24 * 60) \div INTERVAL_LENGTH
    /\ readable \in BOOLEAN
    /\ fieldnames \in Headers
    /\ pending = <<>>
    /\ Idle

\* lines 75-82: open the input and check its header
OpenInput ==
    /\ pc = "start"
    /\ IF readable /\ HeaderOk(fieldnames)
       THEN /\ pc' = "reading"
            /\ exit_status' = exit_status
       ELSE /\ pc' = "done"
            /\ exit_status' = 1
    /\ UNCHANGED << INTERVAL_LENGTH, INTERVALS_PER_DAY, readable, fieldnames,
                    pending, consumed, data, nmi_details, warned_suffixes,
                    warnings, row_count, processed_rows, skipped_rows, output,
                    out_opened >>

\* the rows the reader may yield next
NextRows ==
    IF pending # <<>> THEN { Head(pending) }
    ELSE { row \in Rows : Realizable(row, fieldnames) }

\* lines 83-123: one row
ReadRow ==
    /\ pc = "reading"
    /\ pending # <<>> \/ row_count < MaxRows
    /\ \E row \in NextRows :
         LET st == StepRow([ data |-> data, nmi_details |-> nmi_details,
                             warned_suffixes |-> warned_suffixes,
                             warnings |-> warnings,
                             processed_rows |-> processed_rows,
                             skipped_rows |-> skipped_rows ],
                           row, INTERVAL_LENGTH, INTERVALS_PER_DAY)
         IN  /\ consumed' = Append(consumed, row)
             /\ row_count' = row_count + 1
             /\ data' = st.data
             /\ nmi_details' = st.nmi_details
             /\ warned_suffixes' = st.warned_suffixes
             /\ warnings' = st.warnings
             /\ processed_rows' = st.processed_rows
             /\ skipped_rows' = st.skipped_rows
    /\ pending' = IF pending # <<>> THEN Tail(pending) ELSE pending
    /\ UNCHANGED << INTERVAL_LENGTH, INTERVALS_PER_DAY, readable, fieldnames, pc,
                    output, out_opened, exit_status >>

\* line 129 left out
NoDataNever(d) == FALSE

\* line 129
NoData(d) == d = <<>>

\* lines 128-191: the input is exhausted; exit, or write the output
EndOfInput ==
    /\ pc = "reading"
    /\ pending = <<>>
    /\ pc' = "done"
    /\ exit_status' = 0
    /\ IF NoData(data)
       THEN UNCHANGED << output, out_opened >>
       ELSE /\ out_opened' = TRUE
            /\ \E now \in Clock :
                 output' = WrittenRows(data, nmi_details, INTERVALS_PER_DAY, now)
    /\ UNCHANGED << INTERVAL_LENGTH, INTERVALS_PER_DAY, readable, fieldnames,
                    pending, consumed, data, nmi_details, warned_suffixes,
                    warnings, row_count, processed_rows, skipped_rows >>

Next == OpenInput \/ ReadRow \/ EndOfInput

Spec == Init /\ [][Next]_vars

-----------------------------------------------------------------------------
(* Input files whose rows are fixed beforehand: the readings of one day of *)
(* one stream, slot by slot, and a file of several streams.                *)

\* the StartDate of slot k of 1 June 2024, as the export writes it
SlotStart(k, len) ==
    LET minutes == k * len
        h24     == minutes \div 60
        h12     == IF h24 % 12 = 0 THEN 12 ELSE h24 % 12
    IN  <<"0","1","/","0","6","/","2","0","2","4"," ">>
            \o IntToDigits(h12) \o <<":">> \o ZeroPad(IntToDigits(minutes % 60), 2)
            \o <<":","0","0"," ">> \o (IF h24 < 12 THEN <<"A","M">> ELSE <<"P","M">>)

\* What a slot of a day file holds: no row ("gap"), a row with a quality flag,
\* or a row whose value float() rejects ("bad"). Only slot 0 may be a gap.
SlotRow(kind, k, len) ==
    Row(<<"N","M","I","1","2","3","4","5","6">>, <<"E","1","#","E","1">>, SlotStart(k, len),
        IF kind = "bad" THEN <<"a","b","c">> ELSE <<"1",".","5">>,
        IF kind = "bad" THEN <<"A">> ELSE << kind >>,
        <<"D","E","V","1">>)

\* the rows of a day: slot 0 of kind k0, slot 1 of kind k1, the others of kind rest
DayFile(k0, k1, rest, len, n) ==
    LET kind(k) == IF k = 0 THEN k0 ELSE IF k = 1 THEN k1 ELSE rest
        slots   == [ i \in 1..n |->
                       [ kind |-> kind(i - 1), row |-> SlotRow(kind(i - 1), i - 1, len) ] ]
        rows    == SelectSeq(slots, LAMBDA e : e.kind # "gap")
    IN  [ i \in 1..Len(rows) |-> rows[i].row ]

DayFiles(len, n) ==
    { DayFile(k0, k1, rest, len, n) :
        k0 \in {"gap", "A", "F"},
        k1 \in {"A", "E", "S", "N", "X", "bad"},
        rest \in {"A", "F"} }

\* two meters, three streams, three days, not in the order they are written in
StreamsFile ==
    << RowOtherMeter, RowLowerB, RowSample, RowNotADate, RowDayBefore,
       RowAfternoon, RowSameSlot, RowNoValue >>

FixedFiles(len, n) == DayFiles(len, n) \cup { StreamsFile }

InitFiles ==
    /\ INTERVAL_LENGTH \in IntervalChoices
    /\ INTERVALS_PER_DAY = (24 * 60) \div INTERVAL_LENGTH
    /\ readable = TRUE
    /\ fieldnames \in { h \in Headers : HeaderOk(h) }
    /\ pending \in FixedFiles(INTERVAL_LENGTH, INTERVALS_PER_DAY)
    /\ Idle

SpecFiles == InitFiles /\ [][Next]_vars

-----------------------------------------------------------------------------
(* Terms of the properties below.                                          *)

\* the run wrote its output file
Written == pc = "done" /\ out_opened

\* the k-th row read was accepted
AcceptedAt(k) == Accepted(consumed[k], INTERVAL_LENGTH, INTERVALS_PER_DAY)

AcceptedRows == { k \in 1..Len(consumed) : AcceptedAt(k) }

\* meter, suffix, day and slot of an accepted row
KeyOf(row) ==
    LET start_dt == parse_agl_datetime(row.StartDate)
    IN  << row.NMI, get_suffix_from_register(row.RegisterCode).suffix,
           DateOf(start_dt[1]),
           get_interval_index(start_dt, INTERVAL_LENGTH, INTERVALS_PER_DAY)[1] >>

KeyAt(k) == KeyOf(consumed[k])

StreamDayAt(k) == << KeyAt(k)[1], KeyAt(k)[2], KeyAt(k)[3] >>

\* the value of a row to 3 decimals (0.0 when float() rejects it)
ValueText(row) ==
    LET f == float(row.ProfileReadValue)
    IN  Format3(IF f = <<>> THEN 0 ELSE f[1])

\* the 200 row that output row j stands under, or 0
Header200(j) ==
    LET hs == { i \in 1..j : output[i][1] = 200 }
    IN  IF hs = {} THEN 0 ELSE CHOOSE i \in hs : \A i2 \in hs : i2 <= i

\* the 300 rows written for day text under the 200 row of (nmi, suffix)
Records300Text(nmi, suffix, text) ==
    { j \in 1..Len(output) :
        /\ output[j][1] = 300
        /\ output[j][2] = text
        /\ LET h == Header200(j)
           IN  h # 0 /\ output[h][2] = nmi /\ output[h][5] = suffix }

Records300(nmi, suffix, date) == Records300Text(nmi, suffix, format_nem12_date(date))

\* interval position i (from 0) of a 300 row
SlotOf(rec, i) == rec[3 + i]

Zero3 == <<"0",".","0","0","0">>

-----------------------------------------------------------------------------
(* C1 *)

\* <<k, key, value text>> of every accepted row
AcceptedReadings ==
    { << k, KeyAt(k), ValueText(consumed[k]) >> : k \in AcceptedRows }

\* the 300 row of reading r's meter, suffix and day is one row, with r's value
\* at r's slot
Carried(r) ==
    LET recs == Records300(r[2][1], r[2][2], r[2][3])
    IN  /\ Cardinality(recs) = 1
        /\ \A j \in recs : SlotOf(output[j], r[2][4]) = r[3]

\* C1 as stated: every accepted row's value stands at its slot in the 300 row of
\* its meter, suffix and day, whatever rows the input holds besides.
C1_EveryAcceptedRowCarried ==
    Written => \A r \in AcceptedReadings : Carried(r)

\* C1, amended: the 300 row of (M, S, D) carries at position i the value, to 3
\* decimals, of the last accepted row of slot i of day D of (M, S): a later
\* accepted row of the same slot replaces an earlier one.
C1_LastAcceptedRowCarried ==
    Written =>
        LET readings == AcceptedReadings
        IN  \A r \in readings :
                (\A r2 \in readings : r2[1] > r[1] => r2[2] # r[2]) => Carried(r)

\* two accepted rows of one slot with different values were read and the output
\* written
C1_Witness ==
    /\ Written
    /\ \E k1, k2 \in AcceptedRows :
         /\ k1 < k2
         /\ KeyAt(k1) = KeyAt(k2)
         /\ ValueText(consumed[k1]) # ValueText(consumed[k2])

-----------------------------------------------------------------------------
(* C3 *)

\* row k is the sample reading (1.234, flag A, 12:30 AM of 1 June 2024) and
\* the only accepted row of its meter, suffix and day
SampleAloneAt(k) ==
    /\ AcceptedAt(k)
    /\ consumed[k].StartDate = <<"0","1","/","0","6","/","2","0","2","4"," ","1","2",":","3","0",":","0","0"," ","A","M">>
    /\ consumed[k].ProfileReadValue = <<"1",".","2","3","4">>
    /\ consumed[k].QualityFlag = <<"A">>
    /\ \A k2 \in AcceptedRows \ {k} : StreamDayAt(k2) # StreamDayAt(k)

\* the 300 row of the sample's day: 1.234 at slot 1, 0.000 in the 47 others,
\* and the day quality q
SampleRecord(k, q) ==
    LET recs == Records300Text(consumed[k].NMI,
                               get_suffix_from_register(consumed[k].RegisterCode).suffix,
                               <<"2","0","2","4","0","6","0","1">>)
    IN  /\ Cardinality(recs) = 1
        /\ \A j \in recs :
             /\ Len(output[j]) = 2 + 48 + 4
             /\ SlotOf(output[j], 1) = <<"1",".","2","3","4">>
             /\ \A i \in (0..47) \ {1} : SlotOf(output[j], i) = Zero3
             /\ output[j][2 + 48 + 1] = q

\* C3 as stated: with interval length 30 the day's 300 row has day quality A.
C3_SampleDayQualityA ==
    (Written /\ INTERVAL_LENGTH = 30) =>
        \A k \in 1..Len(consumed) : SampleAloneAt(k) => SampleRecord(k, <<"A">>)

\* C3, amended: with interval length 30 the day's 300 row has 1.234 at slot 1,
\* "0.000" in every other of the 48 slots, and day quality S, the code of the
\* 47 filled slots.
C3_SampleDayQualityS ==
    (Written /\ INTERVAL_LENGTH = 30) =>
        \A k \in 1..Len(consumed) : SampleAloneAt(k) => SampleRecord(k, <<"S">>)

\* the sample was read alone in its day and the output written
C3_Witness ==
    /\ Written /\ INTERVAL_LENGTH = 30
    /\ \E k \in 1..Len(consumed) : SampleAloneAt(k)

-----------------------------------------------------------------------------
(* C4 *)

\* C4: a day of a stream with no populated slot has no 300 row; a day with a
\* populated slot has exactly one, of INTERVALS_PER_DAY slots, each empty slot
\* "0.000" with code S; and there are no other 300 rows.
C4_DayDrop ==
    Written =>
        LET keys == { KeyAt(k) : k \in AcceptedRows }
        IN  /\ \A k1, k2 \in keys :
                 LET nmi    == k1[1]
                     suffix == k1[2]
                     date   == k2[3]
                     pop    == { k[4] : k \in { x \in keys : x[1] = nmi /\ x[2] = suffix
                                                                /\ x[3] = date } }
                     recs   == Records300(nmi, suffix, date)
                 IN  IF pop = {} THEN recs = {}
                     ELSE /\ Cardinality(recs) = 1
                          /\ \A j \in recs :
                               LET rec   == output[j]
                                   codes == FinalQualities(data[nmi][suffix][date],
                                                           INTERVALS_PER_DAY)
                               IN  /\ Len(rec) = 2 + INTERVALS_PER_DAY + 4
                                   /\ \A i \in (0..(INTERVALS_PER_DAY - 1)) \ pop :
                                        /\ SlotOf(rec, i) = Zero3
                                        /\ codes[i + 1] = <<"S">>
            /\ Cardinality({ j \in 1..Len(output) : output[j][1] = 300 })
                   = Cardinality({ << k[1], k[2], k[3] >> : k \in keys })

\* the output was written after accepted rows of two streams on two days, so
\* that a stream has a day of its own and a day only the other stream has
C4_Witness ==
    /\ Written
    /\ \E k1, k2 \in AcceptedRows :
         /\ << KeyAt(k1)[1], KeyAt(k1)[2] >> # << KeyAt(k2)[1], KeyAt(k2)[2] >>
         /\ KeyAt(k1)[3] # KeyAt(k2)[3]

-----------------------------------------------------------------------------
(* C2 *)

\* the per-interval codes rendered for the day of 300 row j: S at a gap-filled
\* slot, the recorded code at a populated one
RenderedCodes(j) ==
    LET h      == Header200(j)
        days   == data[output[h][2]][output[h][5]]
        date   == CHOOSE d \in DOMAIN days : format_nem12_date(d) = output[j][2]
        day    == days[date]
    IN  { IF day.intervals[i] = <<>> THEN <<"S">> ELSE day.quality[i] :
            i \in 0..(INTERVALS_PER_DAY - 1) }

\* the day quality written in 300 row j
DayQualityOf(j) == output[j][2 + INTERVALS_PER_DAY + 1]

Rows300 == { j \in 1..Len(output) : output[j][1] = 300 }

\* the code of codes that comes first in order
HighestIn(order, codes) ==
    LET ranks == { i \in 1..Len(order) : order[i] \in codes }
    IN  order[CHOOSE i \in ranks : \A i2 \in ranks : i <= i2]

\* C2 as stated: S outranks every other code, the suspect code N included, and
\* E comes next.
C2_SubstitutedOutranksAll ==
    Written =>
        \A j \in Rows300 :
            LET codes == RenderedCodes(j)
            IN  /\ <<"S">> \in codes => DayQualityOf(j) = <<"S">>
                /\ (<<"S">> \notin codes /\ <<"N">> \notin codes /\ <<"E">> \in codes)
                       => DayQualityOf(j) = <<"E">>

\* C2, amended: the day quality of every 300 row is the highest code present in
\* the day's rendered slots under the order N > S > E > F > A, N being the
\* suspect code of unparseable values, whatever the number of slots of each
\* code.
C2_SuspectOutranksSubstituted ==
    Written =>
        \A j \in Rows300 :
            LET codes == RenderedCodes(j)
            IN  /\ codes \subseteq { <<"N">>, <<"S">>, <<"E">>, <<"F">>, <<"A">> }
                /\ DayQualityOf(j)
                       = HighestIn(<< <<"N">>, <<"S">>, <<"E">>, <<"F">>, <<"A">> >>, codes)

\* a day was written whose only gap-filled slot is slot 0 and whose slot 1 holds
\* an unparseable value: one S, one N, and A in every other slot
C2_Witness ==
    /\ Written
    /\ \E j \in Rows300 :
         /\ RenderedCodes(j) = { <<"S">>, <<"N">>, <<"A">> }
         /\ SlotOf(output[j], 0) = Zero3
         /\ DayQualityOf(j) = <<"N">>

-----------------------------------------------------------------------------
(* C5 *)

\* the step reads a row
ReadsARow == Len(consumed') = Len(consumed) + 1

\* the row the step reads
RowRead == consumed'[Len(consumed')]

\* a field that is missing (None) or empty
Missing(x) == x = None \/ x = <<>>

\* the step counts the row as skipped, not as processed, and writes no slot
SkipsTheRow ==
    /\ skipped_rows' = skipped_rows + 1
    /\ processed_rows' = processed_rows
    /\ data' = data

\* C5 as stated: a row with any of the six required fields missing or empty is
\* skipped.
C5_AnyMissingOrEmptySkipped ==
    [][ (ReadsARow /\ \E h \in { "NMI", "RegisterCode", "StartDate", "ProfileReadValue",
                                 "QualityFlag", "DeviceNumber" } : Missing(RowRead[h]))
            => SkipsTheRow ]_vars

\* C5, amended: a row is skipped when its meter identifier, register code,
\* timestamp, quality flag or device serial is missing or empty, or when its
\* numeric value is missing. A row whose numeric value is present but empty is
\* not skipped for that: when the row would be accepted with a number in that
\* field, it is counted as processed and writes 0.0 with code N at its slot.
C5_EmptyValueNotSkipped ==
    [][ ReadsARow =>
          /\ ( \/ \E h \in { "NMI", "RegisterCode", "StartDate", "QualityFlag",
                             "DeviceNumber" } : Missing(RowRead[h])
               \/ RowRead.ProfileReadValue = None )
                => SkipsTheRow
          /\ ( /\ RowRead.ProfileReadValue = <<>>
               /\ Accepted([RowRead EXCEPT !.ProfileReadValue = <<"0">>],
                           INTERVAL_LENGTH, INTERVALS_PER_DAY) )
                => /\ processed_rows' = processed_rows + 1
                   /\ skipped_rows' = skipped_rows
                   /\ LET key == KeyOf(RowRead)
                          day == data'[key[1]][key[2]][key[3]]
                      IN  /\ day.intervals[key[4]] = << 0 >>
                          /\ day.quality[key[4]] = <<"N">> ]_vars

\* a row with an empty device serial was read and skipped, and a row with an
\* empty value was read and processed
C5_Witness ==
    /\ processed_rows = 1 /\ skipped_rows = 1
    /\ \E k1, k2 \in 1..Len(consumed) :
         /\ consumed[k1].DeviceNumber = <<>>
         /\ consumed[k2].ProfileReadValue = <<>>
         /\ AcceptedAt(k2)

-----------------------------------------------------------------------------
(* C6 *)

\* the header of the input names the six required columns
ColumnsPresent ==
    \A h \in { "NMI", "RegisterCode", "StartDate", "ProfileReadValue",
               "QualityFlag", "DeviceNumber" } :
        \E i \in 1..Len(fieldnames) : fieldnames[i] = h

\* C6: the output is opened and rows are written only with a readable input,
\* the required columns and at least one processed row; a run with a valid
\* header and no accepted row ends with status 0 and no output; a run with a
\* missing column or an unreadable input ends with a non-zero status and no
\* output.
C6_OutputOnlyWithData ==
    /\ out_opened => (readable /\ ColumnsPresent /\ processed_rows >= 1)
    /\ output # <<>> => out_opened
    /\ (pc = "done" /\ readable /\ ColumnsPresent /\ processed_rows = 0)
           => (exit_status = 0 /\ ~out_opened /\ output = <<>>)
    /\ (pc = "done" /\ ~(readable /\ ColumnsPresent))
           => (exit_status > 0 /\ ~out_opened /\ output = <<>>)

\* a run with a valid header read rows, accepted none of them and ended
C6_Witness ==
    /\ pc = "done" /\ readable /\ ColumnsPresent
    /\ Len(consumed) >= 1 /\ processed_rows = 0 /\ skipped_rows = Len(consumed)
    /\ exit_status = 0 /\ ~out_opened

-----------------------------------------------------------------------------
(* C7 *)

Rows200 == { j \in 1..Len(output) : output[j][1] = 200 }

\* C7: one 100 row first and one 900 row last; between them one 200 row for
\* each stream with an accepted row, the meters ascending and the suffixes of a
\* meter ascending; under each 200 row the 300 rows of the days of its stream,
\* the dates ascending.
C7_RecordOrder ==
    Written =>
        LET keys == { KeyAt(k) : k \in AcceptedRows }
            n    == Len(output)
        IN  /\ n >= 2
            /\ output[1][1] = 100
            /\ output[n][1] = 900
            /\ \A j \in 2..(n - 1) : output[j][1] \in { 200, 300 }
            /\ n > 2 => output[2][1] = 200
            /\ \A h1, h2 \in Rows200 :
                 h1 < h2 =>
                     \/ StrLess(output[h1][2], output[h2][2])
                     \/ /\ output[h1][2] = output[h2][2]
                        /\ StrLess(output[h1][5], output[h2][5])
            /\ { << output[h][2], output[h][5] >> : h \in Rows200 }
                   = { << k[1], k[2] >> : k \in keys }
            /\ \A j \in Rows300 :
                 /\ output[j + 1][1] = 300
                        => DigitsToInt(output[j][2]) < DigitsToInt(output[j + 1][2])
                 /\ LET h == Header200(j)
                    IN  \E k \in keys :
                            /\ k[1] = output[h][2] /\ k[2] = output[h][5]
                            /\ format_nem12_date(k[3]) = output[j][2]
            /\ \A k \in keys : Records300(k[1], k[2], k[3]) # {}

\* the output was written after a row of a meter and then a row of a meter that
\* sorts before it
C7_Witness ==
    /\ Written
    /\ \E k1, k2 \in AcceptedRows :
         k1 < k2 /\ StrLess(consumed[k2].NMI, consumed[k1].NMI)

-----------------------------------------------------------------------------
(* C8 *)

\* C8: a row whose timestamp does not parse adds one to the skip counter and
\* leaves the buckets, the stream details, the warned pairs and the processed
\* counter as they were.
C8_BadTimestampSkipped ==
    [][ (ReadsARow /\ strptime(RowRead.StartDate) = <<>>)
            => /\ skipped_rows' = skipped_rows + 1
               /\ UNCHANGED << data, nmi_details, warned_suffixes, processed_rows >> ]_vars

\* after an accepted row, a row complete in every field but with a timestamp
\* that does not parse was read
C8_Witness ==
    /\ processed_rows = 1 /\ skipped_rows = 1 /\ data # <<>>
    /\ Len(consumed) = 2
    /\ AcceptedAt(1)
    /\ RequiredPresent(consumed[2])
    /\ strptime(consumed[2].StartDate) = <<>>

-----------------------------------------------------------------------------
(* C9 *)

\* one letter of E, B, V, Q, K, N in either case, then one or more digits
StandardSuffix(suffix) ==
    /\ Len(suffix) >= 2
    /\ Upper(suffix[1]) \in { "E", "B", "V", "Q", "K", "N" }
    /\ AllDigits(Tail(suffix))

\* the number of warnings printed for the pair
WarningsFor(pair) ==
    Cardinality({ i \in 1..Len(warnings) : warnings[i] = pair })

\* C9: a stream with an accepted row has no warning when its suffix is
\* standard, and exactly one otherwise.
C9_WarnOnlyNonStandard ==
    \A k \in AcceptedRows :
        LET key == KeyAt(k)
        IN  WarningsFor(<< key[1], key[2] >>)
                = IF StandardSuffix(key[2]) THEN 0 ELSE 1

-----------------------------------------------------------------------------
(* C10 *)

\* the first accepted row of the stream of accepted row k
FirstOfStream(k) ==
    LET same == { k2 \in AcceptedRows :
                    /\ consumed[k2].NMI = consumed[k].NMI
                    /\ get_suffix_from_register(consumed[k2].RegisterCode).suffix
                           = get_suffix_from_register(consumed[k].RegisterCode).suffix }
    IN  CHOOSE k1 \in same : \A k2 \in same : k1 <= k2

\* C10: the details of a stream hold the device serial of the first accepted row
\* of the stream and the kind of its suffix, whatever rows of the stream follow,
\* and the stream's 200 row carries that serial and that kind.
C10_FirstSeenWins ==
    \A k \in AcceptedRows :
        LET nmi    == consumed[k].NMI
            suffix == get_suffix_from_register(consumed[k].RegisterCode).suffix
            first  == consumed[FirstOfStream(k)]
            serial == first.DeviceNumber
            kind   == StreamIdentifier(
                          get_suffix_from_register(first.RegisterCode).suffix)
        IN  /\ nmi \in DOMAIN nmi_details
            /\ suffix \in DOMAIN nmi_details[nmi]
            /\ nmi_details[nmi][suffix].MeterSerialNumber = serial
            /\ nmi_details[nmi][suffix].MDMDataStreamIdentifier = kind
            /\ Written =>
                 \E h \in Rows200 :
                     /\ output[h][2] = nmi /\ output[h][5] = suffix
                     /\ output[h][7] = serial
                     /\ output[h][6] = kind
                     /\ \A h2 \in Rows200 \ {h} :
                            ~(output[h2][2] = nmi /\ output[h2][5] = suffix)

\* the output was written after two accepted rows of one stream with different
\* device serials
C10_Witness ==
    /\ Written
    /\ \E k1, k2 \in AcceptedRows :
         /\ k1 < k2
         /\ consumed[k1].NMI = consumed[k2].NMI
         /\ get_suffix_from_register(consumed[k1].RegisterCode).suffix
                = get_suffix_from_register(consumed[k2].RegisterCode).suffix
         /\ consumed[k1].DeviceNumber # consumed[k2].DeviceNumber

=============================================================================
